---- MODULE Spec2Model ----
(***************************************************************************)
(* Model of the ui-test-rs command line program (src/src/main.rs).         *)
(*                                                                         *)
(* One invocation is modelled: the command line and the file system under  *)
(* the test path are the inputs, chosen in Init; the actions follow main() *)
(* statement by statement; the observable results are the lines written to *)
(* standard output, the calls made to the browser backend and the exit     *)
(* code of the process.                                                    *)
(*                                                                         *)
(* A printed line is a tuple of fragments: the literal text of the format  *)
(* string followed by the displayed arguments, so that                     *)
(*   println!("Test path: {}", p)   is   <<"Test path: ", p>>.             *)
(***************************************************************************)
EXTENDS Integers, Sequences, FiniteSets, TLC

VARIABLES
    args,          \* the command line: [path, verbose, dry_run, extra]
    pathExists,    \* file system: does the test path exist
    suite,         \* file system: names of the test cases under the path, in discovery order
    cli,           \* the parsed Cli struct, NoCli before Cli::parse returns
    pc,            \* position in main
    out,           \* lines written to stdout
    backendCalls,  \* session open / step execute / session close calls made
    stepResults,   \* StepResults produced
    result,        \* what main returned: "none", "Ok", "Err", or "Usage" (clap exited)
    exitCode       \* process exit code, NoExit while running

vars == <<args, pathExists, suite, cli, pc, out, backendCalls, stepResults, result, exitCode>>

----------------------------------------------------------------------------
(* Bounds and input domains *)

MaxCases == 3

CaseNames == {"case_a", "case_b", "case_c", "case_d"}

NoArg == "<omitted>"
NoCli == [parsed |-> FALSE]
NoExit == -1

PathArgs == {NoArg, "tests/", "/custom/path"}
VerboseFlags == {"", "-v", "--verbose"}
DryRunFlags == {"", "-n", "--dry-run"}
\* options the help text advertises but struct Cli does not declare
ExtraFlags == {"", "--jobs"}

Range(s) == {s[i] : i \in DOMAIN s}

\* ordered sequences of distinct case names, at most MaxCases long
Suites ==
    UNION {{s \in [1..n -> CaseNames] : \A i, j \in 1..n : i # j => s[i] # s[j]} : n \in 0..MaxCases}

----------------------------------------------------------------------------
(* Cli: the derived clap parser *)

DefaultTestPath == "."

\* variant: the positional argument is ignored and the default always used
ParseTestPath_IgnoresArg(a) == DefaultTestPath

\* #[arg(default_value = ".", value_name = "TEST_PATH")] test_path
ParseTestPath(a) == IF a = NoArg THEN DefaultTestPath ELSE a

\* #[arg(short, long)] verbose
ParseVerbose(f) == f \in {"-v", "--verbose"}

\* variant: only the long flag sets dry_run
ParseDryRun_LongOnly(f) == f = "--dry-run"

\* #[arg(short = 'n', long)] dry_run
ParseDryRun(f) == f \in {"-n", "--dry-run"}

\* clap rejects an argument that struct Cli does not declare
ParseSucceeds(a) == a.extra = ""

UsageExitCode == 2

\* std::process::Termination for Result<(), E>
ExitCodeOf(r) == IF r = "Ok" THEN 0 ELSE 1

----------------------------------------------------------------------------
(* The three blocks of main, as what each one does *)

\* variant: the two lines are printed whether or not the flag is set
VerboseBlock_Unconditional(c) ==
    << <<"Verbose mode enabled">>, <<"Test path: ", c.test_path>> >>

\* main.rs 66-69
VerboseBlock(c) ==
    IF c.verbose
    THEN << <<"Verbose mode enabled">>, <<"Test path: ", c.test_path>> >>
    ELSE << >>

\* variant: the dry-run branch opens and closes a backend session
DryRunBlock_OpensSession(c) ==
    [lines  |-> << <<"Dry-run mode: would execute tests at ", c.test_path>> >>,
     calls  |-> <<"open", "close">>,
     steps  |-> << >>,
     result |-> "Ok"]

\* main.rs 71-77
DryRunBlock(c) ==
    [lines  |-> << <<"Dry-run mode: would execute tests at ", c.test_path>> >>,
     calls  |-> << >>,
     steps  |-> << >>,
     result |-> "Ok"]

\* main.rs 79-88
RunBlock(c) ==
    [lines  |-> << <<"Running tests at: ", c.test_path>>,
                   <<"">>,
                   <<"Note: Full test runner not yet implemented.">>,
                   <<"This is Phase 1 - Foundation. Coming soon:">>,
                   <<"  - Test discovery">>,
                   <<"  - Playwright MCP integration">>,
                   <<"  - Multiple output formats">>,
                   <<"  - Parallel execution">> >>,
     calls  |-> << >>,
     steps  |-> << >>,
     result |-> "Ok"]

----------------------------------------------------------------------------
(* State machine *)

Init ==
    /\ args \in [path : PathArgs, verbose : VerboseFlags, dry_run : DryRunFlags, extra : ExtraFlags]
    /\ pathExists \in BOOLEAN
    /\ suite \in Suites
    /\ (~pathExists => suite = << >>)
    /\ cli = NoCli
    /\ pc = "parse"
    /\ out = << >>
    /\ backendCalls = << >>
    /\ stepResults = << >>
    /\ result = "none"
    /\ exitCode = NoExit

\* let cli = Cli::parse();  -- all arguments accepted
ParseOk ==
    /\ pc = "parse"
    /\ ParseSucceeds(args)
    /\ cli' = [parsed    |-> TRUE,
               test_path |-> ParseTestPath(args.path),
               verbose   |-> ParseVerbose(args.verbose),
               dry_run   |-> ParseDryRun(args.dry_run)]
    /\ pc' = "verbose"
    /\ UNCHANGED <<args, pathExists, suite, out, backendCalls, stepResults, result, exitCode>>

\* let cli = Cli::parse();  -- clap reports a usage error and exits the process
ParseError ==
    /\ pc = "parse"
    /\ ~ParseSucceeds(args)
    /\ result' = "Usage"
    /\ exitCode' = UsageExitCode
    /\ pc' = "done"
    /\ UNCHANGED <<args, pathExists, suite, cli, out, backendCalls, stepResults>>

\* if cli.verbose { ... }
Verbose ==
    /\ pc = "verbose"
    /\ out' = out \o VerboseBlock(cli)
    /\ pc' = "dry_run"
    /\ UNCHANGED <<args, pathExists, suite, cli, backendCalls, stepResults, result, exitCode>>

\* if cli.dry_run { ...; return Ok(()) }
DryRun ==
    /\ pc = "dry_run"
    /\ cli.dry_run
    /\ LET b == DryRunBlock(cli) IN
        /\ out' = out \o b.lines
        /\ backendCalls' = backendCalls \o b.calls
        /\ stepResults' = stepResults \o b.steps
        /\ result' = b.result
        /\ exitCode' = ExitCodeOf(b.result)
    /\ pc' = "done"
    /\ UNCHANGED <<args, pathExists, suite, cli>>

\* the rest of main, reached when cli.dry_run is false
Run ==
    /\ pc = "dry_run"
    /\ ~cli.dry_run
    /\ LET b == RunBlock(cli) IN
        /\ out' = out \o b.lines
        /\ backendCalls' = backendCalls \o b.calls
        /\ stepResults' = stepResults \o b.steps
        /\ result' = b.result
        /\ exitCode' = ExitCodeOf(b.result)
    /\ pc' = "done"
    /\ UNCHANGED <<args, pathExists, suite, cli>>

Next == ParseOk \/ ParseError \/ Verbose \/ DryRun \/ Run

Spec == Init /\ [][Next]_vars

\* the process is scheduled until it exits
LiveSpec == Spec /\ WF_vars(Next)

TypeOK ==
    /\ pc \in {"parse", "verbose", "dry_run", "done"}
    /\ result \in {"none", "Ok", "Err", "Usage"}
    /\ exitCode \in {NoExit, 0, 1, 2}
    /\ (pc = "done") = (exitCode # NoExit)

----------------------------------------------------------------------------
(* Vocabulary of the properties, in terms of the inputs and the outputs *)

DryRunRequested == args.dry_run \in {"-n", "--dry-run"}
VerboseRequested == args.verbose \in {"-v", "--verbose"}
Accepted == args.extra = ""
RequestedPath == IF args.path = NoArg THEN "." ELSE args.path

Exited == pc = "done"

\* some line of the output starts with the given text
HasLine(text) == \E i \in DOMAIN out : out[i][1] = text

DryRunText == "Dry-run mode: would execute tests at "
RunningText == "Running tests at: "
NoticeText == "Note: Full test runner not yet implemented."

\* the case names that appear in the output, and the order they appear in
IsCaseLine(l) == \E j \in DOMAIN l : l[j] \in CaseNames
ListedCases ==
    LET r == SelectSeq(out, IsCaseLine) IN
    [i \in 1..Len(r) |-> CHOOSE n \in CaseNames : \E j \in DOMAIN r[i] : r[i][j] = n]

\* what the same invocation prints after the verbose block
QuietOutput ==
    IF cli.dry_run THEN DryRunBlock(cli).lines ELSE RunBlock(cli).lines

----------------------------------------------------------------------------
(* Properties *)

\* C1: an invocation with --dry-run or -n makes no backend call (session
\* open, step execute, session close) at any point before it exits, and it
\* exits with code 0, whatever the test path and with or without --verbose.
C1_DryRunNoBackendCalls ==
    (Accepted /\ DryRunRequested) =>
        /\ Len(backendCalls) = 0
        /\ (Exited => exitCode = 0)

C1_Witness ==
    /\ Exited /\ Accepted
    /\ args.dry_run = "-n" /\ VerboseRequested /\ args.path = "tests/"
    /\ HasLine(DryRunText)
    /\ backendCalls = << >>

\* C2 (as stated): the exit code of a run is 2 exactly when a configuration
\* error (a rejected flag or a bad test path) occurred before scheduling, 1
\* exactly when some produced result is not Passed, and 0 exactly when all
\* results are Passed.
ConfigErrorOccurred == ~Accepted \/ ~pathExists
SomeNonPassed == \E i \in DOMAIN stepResults : stepResults[i] # "Passed"
C2_ExitCodeContract ==
    (Exited /\ ~DryRunRequested) =>
        /\ (exitCode = 2) <=> ConfigErrorOccurred
        /\ (exitCode = 1) <=> (~ConfigErrorOccurred /\ SomeNonPassed)
        /\ (exitCode = 0) <=> (~ConfigErrorOccurred /\ ~SomeNonPassed)

\* C3 (as stated): the output of a completed run lists the results of the
\* discovered test cases, one per case, in exactly discovery order.
C3_SummaryInDiscoveryOrder ==
    (Exited /\ Accepted /\ ~DryRunRequested) => ListedCases = suite

\* C7 (as stated): in dry-run mode the output lists the names of the
\* discovered cases (3 names for a suite of 3 cases), no StepResults are
\* produced and the exit code is 0.
C7_DryRunListsSuite ==
    (Exited /\ Accepted /\ DryRunRequested) =>
        /\ Range(ListedCases) = Range(suite)
        /\ Len(ListedCases) = Len(suite)
        /\ stepResults = << >>
        /\ exitCode = 0

\* C8: the test path is the TEST_PATH argument when one is given and "."
\* when it is omitted; a dry run prints "would execute tests at <path>" with
\* that path and exits with code 0 whether or not the path exists.
C8_TestPathDefaultOrGiven ==
    /\ (cli.parsed => cli.test_path = RequestedPath)
    /\ (Exited /\ Accepted /\ DryRunRequested) =>
          /\ \E i \in DOMAIN out : out[i] = <<DryRunText, RequestedPath>>
          /\ exitCode = 0

C8_Witness ==
    /\ Exited /\ Accepted /\ DryRunRequested
    /\ args.path = "/custom/path" /\ ~pathExists
    /\ out[Len(out)] = <<DryRunText, "/custom/path">>
    /\ exitCode = 0

\* a second reachable case of C8: the path is omitted and "." is printed
C8_WitnessDefault ==
    /\ Exited /\ Accepted /\ DryRunRequested
    /\ args.path = NoArg
    /\ out[Len(out)] = <<DryRunText, ".">>

C10_BranchState ==
    /\ result # "Err"
    /\ Accepted => exitCode \in {NoExit, 0}
    /\ (Exited /\ Accepted) =>
          /\ result = "Ok"
          /\ exitCode = 0
          /\ DryRunRequested =>
                (HasLine(DryRunText) /\ ~HasLine(RunningText) /\ ~HasLine(NoticeText))
          /\ ~DryRunRequested =>
                (HasLine(RunningText) /\ HasLine(NoticeText) /\ ~HasLine(DryRunText))

====
